---- MODULE Spec2Model ----
(***************************************************************************)
(* Transcript index (src/utils/file_manager.py, TranscriptManager) and     *)
(* fuzzy word matcher (src/main.py, find_word_matches).                    *)
(*                                                                         *)
(* Strings are sequences of one-character strings, file names are          *)
(* sequences of their dot-separated components (<<"a","json">> is a.json), *)
(* a JSON object is a function from its keys, a JSON array is a sequence,  *)
(* Python's None is the empty sequence where a value may be absent.        *)
(***************************************************************************)
EXTENDS Integers, Sequences, FiniteSets, TLC

VARIABLES
    fs,         \* file system: path -> content of the file at that path
    listing,    \* names in the transcript directory, in the order the OS lists them
    exp,        \* the export_summary call in progress, or [pc |-> "idle"]
    ret,        \* what the last completed call returned or raised
    user_words, transcript_words, similarity_threshold,  \* find_word_matches inputs
    word_matches,                                        \* its result
    shown                                                \* what main() displayed

vars == <<fs, listing, exp, ret, user_words, transcript_words,
          similarity_threshold, word_matches, shown>>

tmVars == <<fs, listing, exp, ret>>
matchVars == <<user_words, transcript_words, similarity_threshold, word_matches, shown>>

----------------------------------------------------------------------------
(* Bounds of the model *)

\* segments plus words in the whole directory, index specification
MaxItems == 3
\* segments plus words in the whole directory, specification with export
MaxExportItems == 1
\* candidate words handed to find_word_matches
MaxCands == 4
\* query terms handed to find_word_matches
MaxTerms == 2

----------------------------------------------------------------------------
(* Strings *)

Space == " "

Min(S) == CHOOSE x \in S : \A y \in S : x <= y
Max(S) == CHOOSE x \in S : \A y \in S : x >= y

\* str.lower(), one character
LowerChar(c) ==
    CASE c = "H" -> "h"
      [] c = "I" -> "i"
      [] c = "A" -> "a"
      [] OTHER -> c

\* str.lower()
Lower(s) == [i \in 1..Len(s) |-> LowerChar(s[i])]

\* str.strip()
Strip(s) ==
    LET ns == {i \in 1..Len(s) : s[i] # Space}
    IN  IF ns = {} THEN <<>> ELSE SubSeq(s, Min(ns), Max(ns))

\* mutant: split(' '), which cuts at every single space
RECURSIVE SplitAtEachSpace(_)
SplitAtEachSpace(s) ==
    LET sp == {i \in 1..Len(s) : s[i] = Space}
    IN  IF sp = {} THEN <<s>>
        ELSE <<SubSeq(s, 1, Min(sp) - 1)>> \o SplitAtEachSpace(SubSeq(s, Min(sp) + 1, Len(s)))

\* str.split(): the maximal runs of non-whitespace, in order
RECURSIVE Split(_)
Split(s) ==
    LET ns == {i \in 1..Len(s) : s[i] # Space}
    IN  IF ns = {} THEN <<>>
        ELSE LET b == Min(ns)
                 sp == {i \in b..Len(s) : s[i] = Space}
                 e == IF sp = {} THEN Len(s) + 1 ELSE Min(sp)
             IN  <<SubSeq(s, b, e - 1)>> \o Split(SubSeq(s, e, Len(s)))

\* q in s (substring containment)
Contains(q, s) ==
    \E i \in 0..(Len(s) - Len(q)) : SubSeq(s, i + 1, i + Len(q)) = q

----------------------------------------------------------------------------
(* Python helpers *)

\* dict.get(key, default)
Get(o, k, d) == IF k \in DOMAIN o THEN o[k] ELSE d

\* truth value of a decoded JSON document (None and {} are false)
Truthy(p) == p # <<>> /\ DOMAIN p[1] # {}

\* x inserted after every element whose start is <= x.start
InsertByStart(s, x) ==
    LET k == Cardinality({i \in 1..Len(s) : s[i].start <= x.start})
    IN  SubSeq(s, 1, k) \o <<x>> \o SubSeq(s, k + 1, Len(s))

\* sorted(s, key=start): stable, ascending
RECURSIVE StableSortByStart(_)
StableSortByStart(s) ==
    IF s = <<>> THEN <<>>
    ELSE InsertByStart(StableSortByStart(SubSeq(s, 1, Len(s) - 1)), s[Len(s)])

\* the concatenation of a sequence of sequences
RECURSIVE Concat(_)
Concat(ss) == IF ss = <<>> THEN <<>> ELSE Head(ss) \o Concat(Tail(ss))

\* d[k] = v on an insertion-ordered dict, kept as a sequence of entries
DictSet(d, k, v) ==
    IF \E i \in 1..Len(d) : d[i].key = k
    THEN [i \in 1..Len(d) |-> IF d[i].key = k THEN [key |-> k, value |-> v] ELSE d[i]]
    ELSE Append(d, [key |-> k, value |-> v])

----------------------------------------------------------------------------
(* Paths *)

TranscriptDir == "transcription"

\* os.path.join(self.transcript_dir, name)
JoinDir(name) == [dir |-> TranscriptDir, name |-> name]

\* os.path.basename
Basename(path) == path.name

\* os.path.splitext(name)[0]
SplitextRoot(name) == IF Len(name) >= 2 THEN SubSeq(name, 1, Len(name) - 1) ELSE name

\* the pattern *.json
GlobJson(name) == Len(name) >= 2 /\ name[Len(name)] = "json"

SummaryName == <<"transcript_summary", "json">>
OtherPath == [dir |-> "reports", name |-> <<"out", "json">>]

----------------------------------------------------------------------------
(* TranscriptManager: the read operations *)

\* find_transcript_files: glob over the transcript directory, in listing order
find_transcript_files ==
    LET names == SelectSeq(listing, GlobJson)
    IN  [i \in 1..Len(names) |-> JoinDir(names[i])]

\* _parse_transcript_file: <<document>>, or <<>> (None) when the file does not decode
parse_transcript_file(transcript_file) ==
    LET content == fs[transcript_file]
    IN  IF content.kind = "json" THEN <<content.doc>> ELSE <<>>

\* mutant: the name cut at its first dot instead of its last
FileKeyFirstDot(transcript_file) == <<Basename(transcript_file)[1], "mp4">>

\* os.path.splitext(os.path.basename(transcript_file))[0] + '.mp4'
FileKey(transcript_file) == Append(SplitextRoot(Basename(transcript_file)), "mp4")

\* the WordDetail list built for one segment in collect_sentences
SentenceWords(segment, segment_index, file_key) ==
    LET ws == Get(segment, "words", <<>>)
    IN  [j \in 1..Len(ws) |->
            [text |-> Strip(Get(ws[j], "word", <<>>)),
             start |-> Get(ws[j], "start", 0),
             end |-> Get(ws[j], "end", 0),
             confidence |-> Get(ws[j], "confidence", 1),
             source_file |-> file_key,
             segment_index |-> segment_index,
             word_index_in_segment |-> j - 1,
             segment_text |-> Get(segment, "text", <<>>)]]

\* the SentenceDetail built for one segment
Sentence(segment, segment_index, file_key) ==
    [text |-> Strip(Get(segment, "text", <<>>)),
     start |-> Get(segment, "start", 0),
     end |-> Get(segment, "end", 0),
     source_file |-> file_key,
     words |-> SentenceWords(segment, segment_index, file_key)]

\* mutant: the per-file sort left out
SortSentencesOmitted(sentences) == sentences

\* sorted(sentences_by_file[file_key], key=lambda x: x.start)
SortSentences(sentences) == StableSortByStart(sentences)

RECURSIVE CollectSentencesLoop(_, _)
CollectSentencesLoop(files, sentences_by_file) ==
    IF files = <<>> THEN sentences_by_file
    ELSE LET transcript_file == Head(files)
             transcript_data == parse_transcript_file(transcript_file)
         IN  IF ~Truthy(transcript_data) \/ "segments" \notin DOMAIN transcript_data[1]
             THEN CollectSentencesLoop(Tail(files), sentences_by_file)
             ELSE LET file_key == FileKey(transcript_file)
                      segments == transcript_data[1].segments
                      sentences == [i \in 1..Len(segments) |->
                                        Sentence(segments[i], i - 1, file_key)]
                  IN  CollectSentencesLoop(Tail(files),
                          DictSet(sentences_by_file, file_key, SortSentences(sentences)))

\* collect_sentences: insertion-ordered dict file_key -> sorted sentences
collect_sentences == CollectSentencesLoop(find_transcript_files, <<>>)

\* mutant: the segments counted from one, as enumerate(segments, 1) would
DetailWordsIndexFromOne(segment, segment_index, file_key) ==
    LET ws == Get(segment, "words", <<>>)
    IN  [j \in 1..Len(ws) |->
            [text |-> Strip(Get(ws[j], "word", <<>>)),
             start |-> Get(ws[j], "start", 0),
             end |-> Get(ws[j], "end", 0),
             confidence |-> Get(ws[j], "confidence", 1),
             source_file |-> file_key,
             segment_index |-> segment_index + 1,
             word_index_in_segment |-> j - 1,
             segment_text |-> Get(segment, "text", <<>>)]]

\* the WordDetail list built for one segment in extract_word_details
DetailWords(segment, segment_index, file_key) ==
    LET ws == Get(segment, "words", <<>>)
    IN  [j \in 1..Len(ws) |->
            [text |-> Strip(Get(ws[j], "word", <<>>)),
             start |-> Get(ws[j], "start", 0),
             end |-> Get(ws[j], "end", 0),
             confidence |-> Get(ws[j], "confidence", 1),
             source_file |-> file_key,
             segment_index |-> segment_index,
             word_index_in_segment |-> j - 1,
             segment_text |-> Get(segment, "text", <<>>)]]

RECURSIVE ExtractWordDetailsLoop(_, _)
ExtractWordDetailsLoop(files, all_word_details) ==
    IF files = <<>> THEN all_word_details
    ELSE LET transcript_file == Head(files)
             transcript_data == parse_transcript_file(transcript_file)
             file_key == FileKey(transcript_file)
         IN  IF ~Truthy(transcript_data) \/ "segments" \notin DOMAIN transcript_data[1]
             THEN ExtractWordDetailsLoop(Tail(files), all_word_details)
             ELSE LET segments == transcript_data[1].segments
                      words == Concat([i \in 1..Len(segments) |->
                                        DetailWords(segments[i], i - 1, file_key)])
                  IN  ExtractWordDetailsLoop(Tail(files), all_word_details \o words)

\* sorted(all_word_details, key=lambda x: x.start)
SortWordDetails(all_word_details) == StableSortByStart(all_word_details)

\* extract_word_details
extract_word_details == SortWordDetails(ExtractWordDetailsLoop(find_transcript_files, <<>>))

\* the records collect_words builds for one Whisper-style segment
SegmentWordInfos(segment, transcript_file) ==
    LET ws == Get(segment, "words", <<>>)
    IN  [j \in 1..Len(ws) |->
            [text |-> Strip(Get(ws[j], "word", <<>>)),
             start |-> Get(ws[j], "start", 0),
             end |-> Get(ws[j], "end", 0),
             source_file |-> Basename(transcript_file)]]

\* the records collect_words builds from the whole-document text (fallback)
FallbackWordInfos(transcript_data, transcript_file) ==
    LET words == Split(Get(transcript_data, "text", <<>>))
    IN  [j \in 1..Len(words) |->
            [text |-> Strip(words[j]),
             start |-> 0,
             end |-> 0,
             source_file |-> Basename(transcript_file)]]

RECURSIVE CollectWordsLoop(_, _)
CollectWordsLoop(files, all_words) ==
    IF files = <<>> THEN all_words
    ELSE LET transcript_file == Head(files)
             transcript_data == parse_transcript_file(transcript_file)
         IN  IF ~Truthy(transcript_data)
             THEN CollectWordsLoop(Tail(files), all_words)
             ELSE IF "segments" \in DOMAIN transcript_data[1]
             THEN LET segments == transcript_data[1].segments
                  IN  CollectWordsLoop(Tail(files), all_words \o
                          Concat([i \in 1..Len(segments) |->
                                    SegmentWordInfos(segments[i], transcript_file)]))
             ELSE CollectWordsLoop(Tail(files), all_words \o
                          FallbackWordInfos(transcript_data[1], transcript_file))

\* sorted(all_words, key=lambda x: x['start'])
SortWords(all_words) == StableSortByStart(all_words)

\* collect_words
collect_words == SortWords(CollectWordsLoop(find_transcript_files, <<>>))

\* mutant: the sentence text compared as it is spelled
SearchSentencesCaseSensitive(query) ==
    LET entries == collect_sentences
        all == Concat([i \in 1..Len(entries) |-> entries[i].value])
    IN  SelectSeq(all, LAMBDA sentence : Contains(query, sentence.text))

\* the sentence branch of search_transcripts
SearchSentences(query) ==
    LET entries == collect_sentences
        all == Concat([i \in 1..Len(entries) |-> entries[i].value])
    IN  SelectSeq(all, LAMBDA sentence : Contains(query, Lower(sentence.text)))

\* the word branch of search_transcripts
SearchWords(query) ==
    SelectSeq(extract_word_details, LAMBDA word : Contains(query, Lower(word.text)))

\* search_transcripts: what the call returns or raises
search_transcripts(query, search_type) ==
    LET q == Lower(query)
    IN  IF search_type = "sentence"
        THEN [status |-> "return", value |-> SearchSentences(q)]
        ELSE IF search_type = "word"
        THEN [status |-> "return", value |-> SearchWords(q)]
        ELSE [status |-> "raise", value |-> "ValueError"]

----------------------------------------------------------------------------
(* TranscriptManager: export_summary, in the steps other calls can observe *)

Idle == [pc |-> "idle", path |-> <<>>, summary |-> <<>>]

EmptyFile == [kind |-> "empty", doc |-> <<>>]
PartialFile == [kind |-> "partial", doc |-> <<>>]
Garbage == [kind |-> "garbage", doc |-> <<>>]
Json(d) == [kind |-> "json", doc |-> d]

\* output_path, defaulted when None
OutputPath(output_path) ==
    IF output_path = <<>> THEN JoinDir(SummaryName) ELSE output_path[1]

\* mutant: the summary laid out as a transcript, its words under the key 'segments'
SummaryAsTranscript ==
    [total_transcripts |-> Len(find_transcript_files),
     sentences |-> collect_sentences,
     words |-> collect_words,
     segments |-> collect_words]

\* the summary dict of export_summary
Summary ==
    [total_transcripts |-> Len(find_transcript_files),
     sentences |-> collect_sentences,
     words |-> collect_words]

\* json.dump accepts dicts, lists, strings and numbers; a SentenceDetail is none of them
Serializable(summary) ==
    \A i \in 1..Len(summary.sentences) : summary.sentences[i].value = <<>>

\* the summary is computed, then open(output_path, 'w') creates or truncates the file
ExportBegin(output_path) ==
    /\ exp.pc = "idle"
    /\ LET path == OutputPath(output_path)
       IN  /\ exp' = [pc |-> "dump", path |-> path, summary |-> Summary]
           /\ fs' = (path :> EmptyFile) @@ fs
           /\ IF path.dir = TranscriptDir /\ path \notin DOMAIN fs
              THEN \E k \in 0..Len(listing) :
                      listing' = SubSeq(listing, 1, k) \o <<path.name>>
                                    \o SubSeq(listing, k + 1, Len(listing))
              ELSE listing' = listing
    /\ UNCHANGED <<ret, matchVars>>

\* json.dump has written the first chunks and the buffer reached the file
ExportFlush ==
    /\ exp.pc = "dump"
    /\ fs[exp.path].kind = "empty"
    /\ fs' = [fs EXCEPT ![exp.path] = PartialFile]
    /\ UNCHANGED <<listing, exp, ret, matchVars>>

\* json.dump ends (or raises TypeError at the first SentenceDetail), the file is closed
ExportFinish ==
    /\ exp.pc = "dump"
    /\ IF Serializable(exp.summary)
       THEN /\ fs' = [fs EXCEPT ![exp.path] = Json(exp.summary)]
            /\ ret' = [op |-> "export_summary", arg |-> exp.summary,
                       status |-> "return", value |-> exp.path]
       ELSE /\ fs' = [fs EXCEPT ![exp.path] = PartialFile]
            /\ ret' = [op |-> "export_summary", arg |-> exp.summary,
                       status |-> "raise", value |-> "TypeError"]
    /\ exp' = Idle
    /\ UNCHANGED <<listing, matchVars>>

----------------------------------------------------------------------------
(* TranscriptManager: the calls *)

Queries == {<<"h", "I">>}
SearchTypes == {"sentence", "word", "phrase"}

CollectSentences ==
    /\ ret' = [op |-> "collect_sentences", arg |-> <<>>,
               status |-> "return", value |-> collect_sentences]
    /\ UNCHANGED <<fs, listing, exp, matchVars>>

\* mutant: all_word_details kept on the manager, so a call adds to the previous call's list
ExtractWordDetailsAccumulating ==
    /\ LET kept == IF ret.op = "extract_word_details" THEN ret.value ELSE <<>>
       IN  ret' = [op |-> "extract_word_details", arg |-> <<>>, status |-> "return",
                   value |-> SortWordDetails(
                                ExtractWordDetailsLoop(find_transcript_files, kept))]
    /\ UNCHANGED <<fs, listing, exp, matchVars>>

ExtractWordDetails ==
    /\ ret' = [op |-> "extract_word_details", arg |-> <<>>,
               status |-> "return", value |-> extract_word_details]
    /\ UNCHANGED <<fs, listing, exp, matchVars>>

CollectWords ==
    /\ ret' = [op |-> "collect_words", arg |-> <<>>,
               status |-> "return", value |-> collect_words]
    /\ UNCHANGED <<fs, listing, exp, matchVars>>

SearchTranscripts(query, search_type) ==
    /\ LET r == search_transcripts(query, search_type)
       IN  ret' = [op |-> "search_transcripts", arg |-> <<query, search_type>>,
                   status |-> r.status, value |-> r.value]
    /\ UNCHANGED <<fs, listing, exp, matchVars>>

----------------------------------------------------------------------------
(* The directories the model starts from *)

Times == {0, 1}
SegTexts == {<<" ", "H", "i">>, <<"h", "a", " ">>}
WordTexts == {<<" ", "H", "i">>, <<"h", "a">>}
DocText == <<"h", "i", " ", " ", "H", "a">>

NameA == <<"a", "json">>
NameB == <<"b", "v2", "json">>
NameNotes == <<"notes", "txt">>

\* Whisper's word entries, and one without the keys the manager reads
WordObjs ==
    {[word |-> t, start |-> s, end |-> s + 1, probability |-> 1] :
        t \in WordTexts, s \in Times} \cup {[probability |-> 1]}

SegSize(g) == 1 + Len(Get(g, "words", <<>>))

\* the segments of size n: one segment and n - 1 words
Segs(n) ==
    {[text |-> t, start |-> s, end |-> s + 1, words |-> ws] :
        t \in SegTexts, s \in Times, ws \in [1..(n - 1) -> WordObjs]}
    \cup (IF n = 1 THEN {[id |-> 0]} ELSE {})

\* the segment lists of total size at most n
RECURSIVE SegLists(_)
SegLists(n) ==
    {<<>>} \cup UNION {LET rests == SegLists(n - k)
                       IN  {<<g>> \o rest : g \in Segs(k), rest \in rests} : k \in 1..n}

RECURSIVE SegListSize(_)
SegListSize(sl) == IF sl = <<>> THEN 0 ELSE SegSize(Head(sl)) + SegListSize(Tail(sl))

\* a file: absent (<<>>), not JSON, or a JSON document
FileOptions(n) ==
    {<<>>, <<Garbage>>, <<Json(<<>>)>>, <<Json([language |-> "en"])>>,
     <<Json([text |-> DocText])>>}
    \cup {<<Json([text |-> DocText, segments |-> sl, language |-> "en"])>> :
            sl \in SegLists(n)}

OptionSize(o) ==
    IF o # <<>> /\ o[1].kind = "json" /\ "segments" \in DOMAIN o[1].doc
    THEN SegListSize(o[1].doc.segments) ELSE 0

\* a transcript the glob must not pick up: its name does not end in .json
NotesContent ==
    Json([segments |-> <<[text |-> <<"h", "a">>, start |-> 0, end |-> 1,
                          words |-> <<[word |-> <<"h", "a">>, start |-> 0, end |-> 1]>>]>>])

\* a.json and b.v2.json hold at most n segments and words together; notes.txt is there
DirInit(n) ==
    \E a \in FileOptions(n) :
        \E b \in FileOptions(n - OptionSize(a)) :
            LET names == {NameNotes} \cup (IF a # <<>> THEN {NameA} ELSE {})
                                     \cup (IF b # <<>> THEN {NameB} ELSE {})
            IN  /\ fs = [p \in {JoinDir(nm) : nm \in names} |->
                            IF p.name = NameA THEN a[1]
                            ELSE IF p.name = NameB THEN b[1]
                            ELSE NotesContent]
                /\ listing = SelectSeq(<<NameA, NameNotes, NameB>>, LAMBDA nm : nm \in names)

NoCall == [op |-> "none", arg |-> <<>>, status |-> "none", value |-> <<>>]

MatchIdle ==
    /\ user_words = <<>>
    /\ transcript_words = <<>>
    /\ similarity_threshold = <<7, 10>>
    /\ word_matches = <<>>
    /\ shown = <<>>

\* the index alone: the read operations over a directory that does not change
IndexInit ==
    /\ DirInit(MaxItems)
    /\ exp = Idle
    /\ ret = NoCall
    /\ MatchIdle

IndexNext ==
    \/ CollectSentences
    \/ ExtractWordDetails
    \/ CollectWords
    \/ \E q \in Queries, t \in SearchTypes : SearchTranscripts(q, t)

IndexSpec == IndexInit /\ [][IndexNext]_vars

\* the manager with export_summary, whose steps interleave with the read operations
Init ==
    /\ DirInit(MaxExportItems)
    /\ exp = Idle
    /\ ret = NoCall
    /\ MatchIdle

Next ==
    \/ CollectSentences
    \/ ExtractWordDetails
    \/ CollectWords
    \/ \E q \in Queries, t \in SearchTypes : SearchTranscripts(q, t)
    \/ \E output_path \in {<<>>, <<OtherPath>>} : ExportBegin(output_path)
    \/ ExportFlush
    \/ ExportFinish

Spec == Init /\ [][Next]_vars

----------------------------------------------------------------------------
(* The fuzzy matcher of main.py.  A similarity is the fraction <<2*M, T>>   *)
(* that SequenceMatcher.ratio() computes as the float 2.0*M/T; fractions    *)
(* are compared by cross-multiplication, which orders them as the floats.   *)

FracGE(x, y) == x[1] * y[2] >= y[1] * x[2]
FracEQ(x, y) == x[1] * y[2] = y[1] * x[2]
FracGT(x, y) == x[1] * y[2] > y[1] * x[2]

\* the length of the longest common run starting right after a[i] and b[j]
RunLength(a, b, i, j, ahi, bhi) ==
    Max({k \in 0..Min({ahi - i, bhi - j}) : \A d \in 1..k : a[i + d] = b[j + d]})

\* SequenceMatcher.find_longest_match(alo, ahi, blo, bhi): <<i, j, k>>, the longest
\* block, the earliest in a, and of those the earliest in b (0-based, no junk)
FindLongestMatch(a, b, alo, ahi, blo, bhi) ==
    LET starts == (alo..(ahi - 1)) \X (blo..(bhi - 1))
        run == [c \in starts |-> RunLength(a, b, c[1], c[2], ahi, bhi)]
        k == Max({run[c] : c \in starts} \cup {0})
    IN  IF k = 0 THEN <<alo, blo, 0>>
        ELSE LET i == Min({c[1] : c \in {c \in starts : run[c] = k}})
                 j == Min({c[2] : c \in {c \in starts : c[1] = i /\ run[c] = k}})
             IN  <<i, j, k>>

\* the total size of SequenceMatcher.get_matching_blocks(): the longest block of
\* a[alo:ahi] and b[blo:bhi], then the same to its left and to its right
MatchingSize(a, b) ==
    LET size[q \in (0..Len(a)) \X (0..Len(a)) \X (0..Len(b)) \X (0..Len(b))] ==
            LET alo == q[1]
                ahi == q[2]
                blo == q[3]
                bhi == q[4]
                m == FindLongestMatch(a, b, alo, ahi, blo, bhi)
                i == m[1]
                j == m[2]
                k == m[3]
            IN  IF k = 0 THEN 0
                ELSE k + (IF alo < i /\ blo < j THEN size[<<alo, i, blo, j>>] ELSE 0)
                       + (IF i + k < ahi /\ j + k < bhi
                          THEN size[<<i + k, ahi, j + k, bhi>>] ELSE 0)
    IN  size[<<0, Len(a), 0, Len(b)>>]

\* SequenceMatcher(None, a, b).ratio()
Ratio(a, b) ==
    LET length == Len(a) + Len(b)
    IN  IF length > 0 THEN <<2 * MatchingSize(a, b), length>>
        ELSE <<1, 1>>

\* the texts of the candidate words and the query terms of the model
CandTexts == {<<"H", "i">>, <<"h", "i", "t">>, <<"h", "a">>}
QueryTerms == {<<"h", "I">>, <<"h", "a", "t">>}

\* Ratio, evaluated once for each pair of lower-cased strings of the model
RatioTable ==
    [p \in {Lower(u) : u \in QueryTerms} \X {Lower(t) : t \in CandTexts} |->
        Ratio(p[1], p[2])] @@ <<>>

\* mutant: the candidate text compared as it is spelled
SimilarityCaseSensitive(user_word, transcript_word) ==
    Ratio(Lower(user_word), transcript_word.text)

\* difflib.SequenceMatcher(None, user_word.lower(), transcript_word.text.lower()).ratio()
Similarity(user_word, transcript_word) ==
    RatioTable[<<Lower(user_word), Lower(transcript_word.text)>>]

\* the match dict appended for one candidate
Match(transcript_word, similarity) ==
    [word |-> transcript_word.text,
     similarity |-> similarity,
     start |-> transcript_word.start,
     end |-> transcript_word.end,
     source_file |-> transcript_word.source_file]

\* mutant: a candidate exactly at the threshold is dropped
AcceptsAbove(similarity, threshold) == FracGT(similarity, threshold)

\* mutant: the comparison turned around
AcceptsBelow(similarity, threshold) == FracGE(threshold, similarity)

\* if similarity >= similarity_threshold
Accepts(similarity, threshold) == FracGE(similarity, threshold)

\* the inner loop: the matches of one user word, in scan order
RECURSIVE ScanMatches(_, _, _)
ScanMatches(user_word, words, threshold) ==
    IF words = <<>> THEN <<>>
    ELSE LET similarity == Similarity(user_word, Head(words))
             rest == ScanMatches(user_word, Tail(words), threshold)
         IN  IF Accepts(similarity, threshold)
             THEN <<Match(Head(words), similarity)>> \o rest
             ELSE rest

\* mutant: sorted ascending (stable), then reversed
RECURSIVE SortMatchesReversed(_)
SortMatchesReversed(matches) ==
    IF matches = <<>> THEN <<>>
    ELSE LET x == matches[Len(matches)]
             s == SortMatchesReversed(SubSeq(matches, 1, Len(matches) - 1))
             k == Cardinality({i \in 1..Len(s) : FracGT(s[i].similarity, x.similarity)})
         IN  SubSeq(s, 1, k) \o <<x>> \o SubSeq(s, k + 1, Len(s))

\* x inserted after every element whose similarity is >= x.similarity
InsertBySimilarity(s, x) ==
    LET k == Cardinality({i \in 1..Len(s) : FracGE(s[i].similarity, x.similarity)})
    IN  SubSeq(s, 1, k) \o <<x>> \o SubSeq(s, k + 1, Len(s))

\* matches.sort(key=lambda x: x['similarity'], reverse=True): stable, descending
RECURSIVE SortMatches(_)
SortMatches(matches) ==
    IF matches = <<>> THEN <<>>
    ELSE InsertBySimilarity(SortMatches(SubSeq(matches, 1, Len(matches) - 1)),
                            matches[Len(matches)])

\* find_word_matches: insertion-ordered dict user_word -> sorted matches
RECURSIVE find_word_matches(_, _, _)
find_word_matches(words, candidates, threshold) ==
    IF words = <<>> THEN <<>>
    ELSE LET user_word == words[Len(words)]
             before == find_word_matches(SubSeq(words, 1, Len(words) - 1),
                                         candidates, threshold)
         IN  DictSet(before, user_word,
                     SortMatches(ScanMatches(user_word, candidates, threshold)))

\* similarity_threshold=0.7
DefaultThreshold == <<7, 10>>

\* matches[:3]
TopN == 3

\* the display loop of main(): the matches shown for each user word
Displayed(matches_by_word) ==
    [i \in 1..Len(matches_by_word) |->
        [key |-> matches_by_word[i].key,
         value |-> SubSeq(matches_by_word[i].value, 1,
                          Min({TopN, Len(matches_by_word[i].value)}))]]

\* a direct call of find_word_matches with a threshold
FindWordMatches(threshold) ==
    /\ similarity_threshold' = threshold
    /\ word_matches' = find_word_matches(user_words, transcript_words, threshold)
    /\ ret' = [op |-> "find_word_matches", arg |-> threshold, status |-> "return",
               value |-> <<>>]
    /\ UNCHANGED <<fs, listing, exp, user_words, transcript_words, shown>>

\* main(): the call with the default threshold, then the display loop
Main ==
    /\ similarity_threshold' = DefaultThreshold
    /\ word_matches' = find_word_matches(user_words, transcript_words, DefaultThreshold)
    /\ shown' = Displayed(word_matches')
    /\ ret' = [op |-> "main", arg |-> <<>>, status |-> "return", value |-> <<>>]
    /\ UNCHANGED <<fs, listing, exp, user_words, transcript_words>>

Thresholds == {<<0, 1>>, <<1, 2>>, DefaultThreshold, <<1, 1>>}

\* candidates as extract_word_details returns them: WordDetails in non-decreasing start
Candidates ==
    UNION {{[i \in 1..n |-> [text |-> ts[i], start |-> i - 1, end |-> i,
                              source_file |-> <<"a", "mp4">>]] :
                ts \in [1..n -> CandTexts]} : n \in 0..MaxCands}

MatchInit ==
    /\ fs = <<>>
    /\ listing = <<>>
    /\ exp = Idle
    /\ ret = NoCall
    /\ transcript_words \in Candidates
    /\ user_words \in UNION {[1..n -> QueryTerms] : n \in 0..MaxTerms}
    /\ similarity_threshold = DefaultThreshold
    /\ word_matches = <<>>
    /\ shown = <<>>

MatchNext ==
    \/ \E threshold \in Thresholds : FindWordMatches(threshold)
    \/ Main

MatchSpec == MatchInit /\ [][MatchNext]_vars

----------------------------------------------------------------------------
(* Vocabulary of the properties *)

NonDecreasingStart(s) == \A i \in 1..(Len(s) - 1) : s[i].start <= s[i + 1].start

Occurrences(x, s) == Cardinality({i \in 1..Len(s) : s[i] = x})

Range(s) == {s[i] : i \in 1..Len(s)}

\* the k-th smallest element of a set of numbers
Kth(S, k) == CHOOSE x \in S : Cardinality({y \in S : y < x}) = k - 1

\* the names of the *.json files of the transcript directory
JsonNames ==
    {p.name : p \in {q \in DOMAIN fs : q.dir = TranscriptDir /\ q.name[Len(q.name)] = "json"}}

\* the input transcripts: every *.json file but the summary export_summary writes
InputNames == JsonNames \ {SummaryName}

Document(nm) == fs[[dir |-> TranscriptDir, name |-> nm]]

HasSegments(nm) == Document(nm).kind = "json" /\ "segments" \in DOMAIN Document(nm).doc

\* foo.json -> foo.mp4
Mp4Name(nm) == SubSeq(nm, 1, Len(nm) - 1) \o <<"mp4">>

\* a document without segments that carries a whole-document text
TextOnly(nm) ==
    /\ Document(nm).kind = "json"
    /\ "segments" \notin DOMAIN Document(nm).doc
    /\ "text" \in DOMAIN Document(nm).doc

----------------------------------------------------------------------------
(* C1: every per-file sentence list returned by collect_sentences, the word *)
(* list returned by extract_word_details and the record list returned by    *)
(* collect_words are non-decreasing in start.                               *)
C1_SortedByStart ==
    /\ ret.op = "collect_sentences" =>
          \A i \in 1..Len(ret.value) : NonDecreasingStart(ret.value[i].value)
    /\ ret.op = "extract_word_details" => NonDecreasingStart(ret.value)
    /\ ret.op = "collect_words" => NonDecreasingStart(ret.value)

\* collect_sentences has returned for a file whose segments are out of order
C1_Witness ==
    /\ ret.op = "collect_sentences"
    /\ \E nm \in InputNames :
          /\ HasSegments(nm)
          /\ LET segs == Document(nm).doc.segments
             IN  \E i \in 1..(Len(segs) - 1) :
                    Get(segs[i], "start", 0) > Get(segs[i + 1], "start", 0)

----------------------------------------------------------------------------
(* Vocabulary of the matcher properties *)

Called == ret.op \in {"find_word_matches", "main"}

IsOne(similarity) == similarity[1] = similarity[2]

\* the similarity of a query term and a text, both lower-cased
TermSimilarity(term, text) == Ratio(Lower(term), Lower(text))

\* the positions of the candidates at or above the threshold for a term
AtOrAbove(term, threshold) ==
    {i \in 1..Len(transcript_words) :
        FracGE(TermSimilarity(term, transcript_words[i].text), threshold)}

(* C3: the match list of every query term holds one match for each          *)
(* candidate whose similarity to the term is >= the threshold and none for  *)
(* a candidate below it, however many there are; only the display loop of   *)
(* main() cuts the list to its first three.                                 *)
C3_ThresholdFilter ==
    Called =>
        /\ {word_matches[e].key : e \in 1..Len(word_matches)} = Range(user_words)
        /\ \A e \in 1..Len(word_matches) :
              LET term == word_matches[e].key
                  matches == word_matches[e].value
                  kept == AtOrAbove(term, similarity_threshold)
              IN  /\ Len(matches) = Cardinality(kept)
                  /\ \A i \in kept :
                        \E m \in 1..Len(matches) :
                           /\ matches[m].word = transcript_words[i].text
                           /\ matches[m].start = transcript_words[i].start
                           /\ matches[m].end = transcript_words[i].end
                           /\ matches[m].source_file = transcript_words[i].source_file
                           /\ FracEQ(matches[m].similarity,
                                     TermSimilarity(term, transcript_words[i].text))
        /\ ret.op = "main" =>
              /\ Len(shown) = Len(word_matches)
              /\ \A e \in 1..Len(shown) :
                    /\ shown[e].key = word_matches[e].key
                    /\ Len(shown[e].value) <= TopN
                    /\ \A m \in 1..Len(word_matches[e].value) :
                          m <= TopN => shown[e].value[m] = word_matches[e].value[m]

\* one term matched more than three candidates, exactly at the threshold among them,
\* and another term had a candidate rejected
C3_Witness ==
    /\ ret.op = "find_word_matches"
    /\ \E e \in 1..Len(word_matches) :
          /\ Len(word_matches[e].value) > TopN
          /\ \E m \in 1..Len(word_matches[e].value) :
                FracEQ(word_matches[e].value[m].similarity, similarity_threshold)
    /\ \E e \in 1..Len(word_matches) :
          /\ Len(word_matches[e].value) < Len(transcript_words)
          /\ Len(word_matches[e].value) > 0

(* C4: every match list is sorted by similarity, highest first, and matches *)
(* of equal similarity keep the order in which their candidates were        *)
(* scanned (candidates are scanned in the order of their start here).       *)
C4_SortedBySimilarity ==
    Called =>
        \A e \in 1..Len(word_matches) :
            LET matches == word_matches[e].value
            IN  \A i, j \in 1..Len(matches) :
                   i < j =>
                      /\ FracGE(matches[i].similarity, matches[j].similarity)
                      /\ FracEQ(matches[i].similarity, matches[j].similarity)
                            => matches[i].start < matches[j].start

\* a list in which the sort moved a later candidate forward and kept a tie in scan order
C4_Witness ==
    /\ Called
    /\ \E e \in 1..Len(word_matches) :
          LET matches == word_matches[e].value
          IN  /\ \E i, j \in 1..Len(matches) :
                    i < j /\ matches[i].start > matches[j].start
              /\ \E i, j \in 1..Len(matches) :
                    i < j /\ FracEQ(matches[i].similarity, matches[j].similarity)

(* C5: with the query terms and the candidates fixed, a call with a         *)
(* threshold at least as high as the previous call's returns, for every     *)
(* term, a sublist of the previous matches: never more of them.             *)
C5_ThresholdMonotone ==
    [][(Called /\ FracGE(similarity_threshold', similarity_threshold)) =>
          /\ Len(word_matches') = Len(word_matches)
          /\ \A e \in 1..Len(word_matches) :
                /\ word_matches'[e].key = word_matches[e].key
                /\ Len(word_matches'[e].value) <= Len(word_matches[e].value)
                /\ Range(word_matches'[e].value) \subseteq Range(word_matches[e].value)]_vars

\* a call at the highest threshold returned matches, and fewer than the lowest admits
C5_Witness ==
    /\ ret.op = "find_word_matches"
    /\ similarity_threshold = <<1, 1>>
    /\ \E e \in 1..Len(word_matches) :
          /\ Len(word_matches[e].value) > 0
          /\ Len(word_matches[e].value)
                < Cardinality(AtOrAbove(word_matches[e].key, <<0, 1>>))

(* C6: when a query term equals a candidate's text but for case, and the    *)
(* threshold is at most 1.0, that candidate is in the term's list with      *)
(* similarity 1.0 and the list starts with a match of similarity 1.0.       *)
C6_ExactMatchFirst ==
    (Called /\ FracGE(<<1, 1>>, similarity_threshold)) =>
        \A e \in 1..Len(word_matches) :
            \A i \in 1..Len(transcript_words) :
                Lower(word_matches[e].key) = Lower(transcript_words[i].text) =>
                    LET matches == word_matches[e].value
                    IN  /\ \E m \in 1..Len(matches) :
                              /\ matches[m].start = transcript_words[i].start
                              /\ matches[m].word = transcript_words[i].text
                              /\ IsOne(matches[m].similarity)
                        /\ IsOne(matches[1].similarity)

\* an exact match, spelled in another case and scanned after a weaker candidate, comes first
C6_Witness ==
    /\ Called
    /\ \E e \in 1..Len(word_matches) :
          LET matches == word_matches[e].value
          IN  /\ Len(matches) >= 2
              /\ IsOne(matches[1].similarity)
              /\ matches[1].start > 0
              /\ matches[1].word # word_matches[e].key
              /\ ~IsOne(matches[Len(matches)].similarity)

----------------------------------------------------------------------------
(* C7: for a transcript whose document has no 'segments' key but a 'text'   *)
(* field, collect_words yields one record per whitespace-separated token of *)
(* the text, in token order, each with start = 0 and end = 0;               *)
(* collect_sentences and extract_word_details yield nothing for that file.  *)
C7_FallbackWords ==
    \A nm \in InputNames :
        TextOnly(nm) =>
            LET text == Document(nm).doc.text
                begins == {i \in 1..Len(text) :
                              text[i] # Space /\ (i = 1 \/ text[i - 1] = Space)}
                ends == {i \in 1..Len(text) :
                            text[i] # Space /\ (i = Len(text) \/ text[i + 1] = Space)}
            IN  /\ ret.op = "collect_words" =>
                      LET records == SelectSeq(ret.value, LAMBDA r : r.source_file = nm)
                      IN  /\ Len(records) = Cardinality(begins)
                          /\ \A k \in 1..Len(records) :
                                /\ records[k].text = SubSeq(text, Kth(begins, k), Kth(ends, k))
                                /\ records[k].start = 0
                                /\ records[k].end = 0
                /\ ret.op = "collect_sentences" =>
                      \A i \in 1..Len(ret.value) :
                         /\ ret.value[i].key \notin {nm, Mp4Name(nm)}
                         /\ \A k \in 1..Len(ret.value[i].value) :
                               ret.value[i].value[k].source_file \notin {nm, Mp4Name(nm)}
                /\ ret.op = "extract_word_details" =>
                      \A i \in 1..Len(ret.value) :
                         ret.value[i].source_file \notin {nm, Mp4Name(nm)}

\* collect_words has returned two tokens of a text-only file beside a timed word of another
C7_Witness ==
    /\ ret.op = "collect_words"
    /\ \E nm \in InputNames :
          /\ TextOnly(nm)
          /\ Cardinality({i \in 1..Len(ret.value) : ret.value[i].source_file = nm}) >= 2
          /\ \E i \in 1..Len(ret.value) :
                ret.value[i].source_file # nm /\ ret.value[i].start > 0

(* C8: export_summary completes without raising whatever the directory      *)
(* holds, returns the output path, and leaves there a complete JSON document *)
(* with total_transcripts, sentences and words.                              *)
C8_ExportCompletes ==
    (ret.op = "export_summary" /\ exp.pc = "idle") =>
        /\ ret.status = "return"
        /\ ret.value \in DOMAIN fs
        /\ fs[ret.value].kind = "json"
        /\ DOMAIN fs[ret.value].doc = {"total_transcripts", "sentences", "words"}

(* C9: whatever export_summary calls to the default path came before, the   *)
(* total_transcripts a call computes is the number of input transcript      *)
(* files, those that fail to parse included, the summary file excluded.     *)
C9_TotalCountsInputFiles ==
    (exp.pc = "dump" /\ exp.path = JoinDir(SummaryName)) =>
        exp.summary.total_transcripts = Cardinality(InputNames)

(* C10: search_transcripts in mode 'sentence' returns exactly the sentences *)
(* of collect_sentences whose lower-cased text contains the lower-cased     *)
(* query, in mode 'word' exactly such words of extract_word_details, and    *)
(* in any other mode raises an invalid-argument error.                      *)
C10_Search ==
    ret.op = "search_transcripts" =>
        LET query == ret.arg[1]
            mode == ret.arg[2]
            entries == collect_sentences
            sentences == Concat([i \in 1..Len(entries) |-> entries[i].value])
            words == extract_word_details
            Hit(x) == Contains(Lower(query), Lower(x.text))
        IN  /\ mode = "sentence" =>
                  /\ ret.status = "return"
                  /\ Range(ret.value) = {x \in Range(sentences) : Hit(x)}
                  /\ \A x \in Range(ret.value) :
                        Occurrences(x, ret.value) = Occurrences(x, sentences)
            /\ mode = "word" =>
                  /\ ret.status = "return"
                  /\ Range(ret.value) = {x \in Range(words) : Hit(x)}
                  /\ \A x \in Range(ret.value) :
                        Occurrences(x, ret.value) = Occurrences(x, words)
            /\ mode \notin {"sentence", "word"} =>
                  /\ ret.status = "raise"
                  /\ ret.value = "ValueError"

\* a sentence search has returned some sentences, spelled in another case, and left some out
C10_Witness ==
    /\ ret.op = "search_transcripts"
    /\ ret.arg[2] = "sentence"
    /\ Len(ret.value) >= 1
    /\ \E i \in 1..Len(ret.value) : ~Contains(ret.arg[1], ret.value[i].text)
    /\ \E i \in 1..Len(collect_sentences) :
          \E k \in 1..Len(collect_sentences[i].value) :
             collect_sentences[i].value[k] \notin Range(ret.value)


----------------------------------------------------------------------------
Stripped(text) == text = <<>> \/ (text[1] # Space /\ text[Len(text)] # Space)

(* C12: every text field of every Word and Sentence that collect_sentences  *)
(* and extract_word_details build (Word.text, Word.segment_text and          *)
(* Sentence.text) has no leading and no trailing whitespace, whatever the    *)
(* source segment text begins or ends with.                                  *)
C12_TextFieldsStripped ==
    /\ ret.op = "collect_sentences" =>
          \A i \in 1..Len(ret.value) :
             \A k \in 1..Len(ret.value[i].value) :
                LET sentence == ret.value[i].value[k]
                IN  /\ Stripped(sentence.text)
                    /\ \A j \in 1..Len(sentence.words) :
                          /\ Stripped(sentence.words[j].text)
                          /\ Stripped(sentence.words[j].segment_text)
    /\ ret.op = "extract_word_details" =>
          \A i \in 1..Len(ret.value) :
             /\ Stripped(ret.value[i].text)
             /\ Stripped(ret.value[i].segment_text)


(* C13: every record collect_words returns carries as source_file the file  *)
(* key of its transcript, the base name with the extension replaced by      *)
(* .mp4, the same key extract_word_details gives the words of that file.    *)
C13_SameFileKey ==
    ret.op = "collect_words" =>
        /\ \A i \in 1..Len(ret.value) :
              ret.value[i].source_file \in {Mp4Name(nm) : nm \in InputNames}
        /\ \A word \in Range(extract_word_details) :
              \E i \in 1..Len(ret.value) :
                 ret.value[i] = [text |-> word.text, start |-> word.start,
                                 end |-> word.end, source_file |-> word.source_file]


----------------------------------------------------------------------------
\* the words nested in the sentences of a collect_sentences result, over all files
NestedWords(sentences_by_file) ==
    Concat([i \in 1..Len(sentences_by_file) |->
              Concat([k \in 1..Len(sentences_by_file[i].value) |->
                        sentences_by_file[i].value[k].words])])

\* the same elements, each as many times
SameMultiset(s, t) ==
    /\ Len(s) = Len(t)
    /\ \A x \in Range(s) \cup Range(t) : Occurrences(x, s) = Occurrences(x, t)

WordFields ==
    {"text", "start", "end", "confidence", "source_file", "segment_index",
     "word_index_in_segment", "segment_text"}

\* the word is the one at its indices in the segments array of its source file
AtSourcePosition(word) ==
    \E nm \in InputNames :
        /\ HasSegments(nm)
        /\ Mp4Name(nm) = word.source_file
        /\ LET segments == Document(nm).doc.segments
           IN  /\ word.segment_index + 1 \in 1..Len(segments)
               /\ LET segment == segments[word.segment_index + 1]
                      ws == Get(segment, "words", <<>>)
                  IN  /\ word.segment_text = Get(segment, "text", <<>>)
                      /\ word.word_index_in_segment + 1 \in 1..Len(ws)
                      /\ LET w == ws[word.word_index_in_segment + 1]
                         IN  /\ word.start = Get(w, "start", 0)
                             /\ word.end = Get(w, "end", 0)

(* C14: the words nested in the sentences collect_sentences returns, over   *)
(* all files and sentences, and the words extract_word_details returns are  *)
(* the same multiset, equal in all eight fields; segment_index is the       *)
(* position of the segment in its source file, also where the sort of the   *)
(* sentences has moved the segment.                                         *)
C14_ProjectionsAgree ==
    /\ ret.op = "collect_sentences" =>
          /\ SameMultiset(NestedWords(ret.value), extract_word_details)
          /\ \A word \in Range(NestedWords(ret.value)) :
                DOMAIN word = WordFields /\ AtSourcePosition(word)
    /\ ret.op = "extract_word_details" =>
          /\ SameMultiset(ret.value, NestedWords(collect_sentences))
          /\ \A word \in Range(ret.value) :
                DOMAIN word = WordFields /\ AtSourcePosition(word)

\* collect_sentences has returned a word in a sentence that the sort moved from its
\* position in the source file
C14_Witness ==
    /\ ret.op = "collect_sentences"
    /\ \E i \in 1..Len(ret.value) :
          \E k \in 1..Len(ret.value[i].value) :
             \E j \in 1..Len(ret.value[i].value[k].words) :
                ret.value[i].value[k].words[j].segment_index # k - 1


----------------------------------------------------------------------------
\* the files the glob returns when the summary file is not in the directory
InputFiles == SelectSeq(find_transcript_files, LAMBDA f : f # JoinDir(SummaryName))

\* no sentence and no word under the summary file's key
NothingFromSummary(sentences_by_file, word_details) ==
    /\ \A i \in 1..Len(sentences_by_file) :
          sentences_by_file[i].key # Mp4Name(SummaryName)
    /\ \A i \in 1..Len(word_details) :
          word_details[i].source_file # Mp4Name(SummaryName)

(* C15: while the summary file of an export_summary to the default path is  *)
(* in the transcript directory, created and empty, partly written or        *)
(* complete, collect_sentences and extract_word_details return what they    *)
(* return over the input files alone: the summary file adds no sentence and *)
(* no word.                                                                 *)
C15_SummaryNeverIndexed ==
    JoinDir(SummaryName) \in DOMAIN fs =>
        LET sentences == CollectSentencesLoop(InputFiles, <<>>)
            words == SortWordDetails(ExtractWordDetailsLoop(InputFiles, <<>>))
        IN  /\ collect_sentences = sentences
            /\ extract_word_details = words
            /\ NothingFromSummary(collect_sentences, extract_word_details)
            /\ ret.op = "collect_sentences" => ret.value = sentences
            /\ ret.op = "extract_word_details" => ret.value = words

\* collect_sentences has returned a sentence of an input file while the summary file,
\* listed before that file, is partly written by an export in progress
C15_Witness ==
    /\ exp.pc = "dump"
    /\ exp.path = JoinDir(SummaryName)
    /\ fs[exp.path].kind = "partial"
    /\ listing[1] = SummaryName
    /\ ret.op = "collect_sentences"
    /\ \E i \in 1..Len(ret.value) : Len(ret.value[i].value) >= 1

====
